---- MODULE Spec2Model ----
(***************************************************************************)
(* Model of the skeet-local service orchestration core: ConfigManager      *)
(* (layered configuration), the four service connectors, ServiceManager    *)
(* (the registry) and the gateway's handlers that call it.                 *)
(*                                                                         *)
(* The program is single-threaded JavaScript: a piece of code runs without *)
(* interruption until it awaits an I/O operation (the remote configuration *)
(* request, a connector's connect/probe, pool.end()/client.quit(), a       *)
(* backend call).  One action of the model is one such piece: it starts    *)
(* where a call begins or an awaited I/O operation completes and runs to   *)
(* the next awaited I/O operation or to the end of the call.  An await of  *)
(* a promise that is already settled does not let another request in, so   *)
(* it ends no action.                                                      *)
(***************************************************************************)
EXTENDS Integers, Sequences, FiniteSets, TLC

\* ------------------------------------------------------------------ bounds
MaxTasks == 3        \* calls made on the registry in one run
MaxEnvChanges == 1   \* changes of backend reachability in one run

Tasks == 1..MaxTasks

\* --------------------------------------------------------------- constants
Kinds == {"postgres", "mysql", "redis", "opensearch"}
\* the order in which initialize() and shutdown() visit the kinds
KindOrder == <<"postgres", "mysql", "redis", "opensearch">>
NKinds == Len(KindOrder)

RefreshTool == "refresh_skeet_tools"

\* getTools() of each connector: the names of its declarations, in order
ConnectorTools(k) ==
  CASE k = "postgres"   -> <<"postgres_query">>
    [] k = "mysql"      -> <<"mysql_query">>
    [] k = "redis"      -> <<"redis_query", "redis_get", "redis_set">>
    [] k = "opensearch" -> <<"opensearch_search">>

SeqToSet(s) == {s[j] : j \in 1..Len(s)}
BackendTools == UNION {SeqToSet(ConnectorTools(k)) : k \in Kinds}
UnknownToolName == "no_such_tool"
ToolNames == BackendTools \cup {RefreshTool, UnknownToolName}

\* the case of executeTool's switch a backend tool name falls in
KindOfTool(name) == CHOOSE k \in Kinds : name \in SeqToSet(ConnectorTools(k))

\* ------------------------------------------------------- configuration data
Undef == "undefined"                 \* a field that is not set
Truthy(s) == s \notin {Undef, ""}    \* JavaScript truthiness of a string field

NoConn == [dsn |-> Undef, name |-> Undef, is_primary |-> FALSE]
\* a kind's entry: enabled, url, options.connection (conn) and one further
\* option (opt) that only the file can set
Disabled == [enabled |-> FALSE, url |-> Undef, conn |-> NoConn, opt |-> Undef]
Baseline == [k \in Kinds |-> Disabled]

NoEnv == [k \in Kinds |-> Undef]
NoFile == [state |-> "absent", keys |-> {}, url |-> [k \in Kinds |-> Undef],
           opt |-> [k \in Kinds |-> Undef], off |-> {}]
NoRemote == [status |-> "non200", integrations |-> FALSE,
             conns |-> [k \in Kinds |-> <<>>]]

\* The configuration sources the runs start from.
\* 1: two backends named by environment variables, no API key.
\* 2: one backend from the environment, two named by the file without any
\*    url, an API key and a remote response with a primary PostgreSQL
\*    connection: all four kinds are enabled.
\* 3: a single backend named by an environment variable.
Sources ==
  { [env |-> [NoEnv EXCEPT !["postgres"] = "pg://a", !["opensearch"] = "http://os"],
     file |-> NoFile, apiKey |-> FALSE, remote |-> NoRemote],
    [env |-> [NoEnv EXCEPT !["mysql"] = "mysql://b"],
     file |-> [NoFile EXCEPT !.state = "ok",
                              !.keys = {"redis", "opensearch", "other"}],
     apiKey |-> TRUE,
     remote |-> [status |-> "ok", integrations |-> TRUE,
                 conns |-> [k \in Kinds |->
                   IF k = "postgres"
                     THEN << [dsn |-> "pg://r2", name |-> "replica", is_primary |-> FALSE],
                             [dsn |-> "pg://r1", name |-> "main", is_primary |-> TRUE] >>
                     ELSE <<>>]]],
    [env |-> [NoEnv EXCEPT !["redis"] = "redis://c"],
     file |-> NoFile, apiKey |-> FALSE, remote |-> NoRemote] }

\* ------------------------------------------------------------ ConfigManager
\* loadFromEnv: a set URL variable replaces the kind's entry
LoadFromEnv(cfg, e) ==
  [k \in Kinds |-> IF Truthy(e[k])
                     THEN [enabled |-> TRUE, url |-> e[k], conn |-> NoConn,
                           opt |-> Undef]
                     ELSE cfg[k]]

\* names every object inherits from Object.prototype: this.config[name] is a
\* function, hence truthy, although name is no own key
InheritedNames == {"constructor", "toString"}

\* loadFromFile's test if (this.config[key]) and the assignment after it:
\* the own keys of the config once the file's keys are merged
FileKeys(own, f) ==
  IF f.state # "ok" THEN own
  ELSE own \cup {x \in f.keys : x \in own \/ x \in InheritedNames}

\* { ...this.config[key], ...fileConfig[key] }: the fields the file's entry
\* sets replace the entry's (f.off: the kinds whose file entry says
\* enabled: false)
MergeEntry(e, f, k) ==
  [enabled |-> IF k \in f.off THEN FALSE ELSE e.enabled,
   url |-> IF f.url[k] # Undef THEN f.url[k] ELSE e.url,
   conn |-> IF f.opt[k] # Undef THEN NoConn ELSE e.conn,
   opt |-> IF f.opt[k] # Undef THEN f.opt[k] ELSE e.opt]

\* faulty variant: the merged entry keeps its enabled field
ForceEnabled_Keep(e) == e

\* the enabled: true that ends the merged object literal
ForceEnabled(e) == [e EXCEPT !.enabled = TRUE]

\* faulty variant: the text of a file that does not parse is applied too
LoadFromFile_Unchecked(cfg, f) ==
  [k \in Kinds |->
     IF k \in f.keys
       THEN ForceEnabled(MergeEntry(cfg[k], f, k))
       ELSE cfg[k]]

\* loadFromFile: every well-known key of a parsed file is merged onto the
\* entry and enabled (an options object of the file replaces the entry's
\* options as a whole); an absent or malformed file changes nothing
LoadFromFile(cfg, f) ==
  IF f.state # "ok" THEN cfg
  ELSE [k \in Kinds |->
          IF k \in f.keys
            THEN ForceEnabled(MergeEntry(cfg[k], f, k))
            ELSE cfg[k]]

\* faulty variant: the first connection is taken whatever its flag
FindPrimary_First(cs) == IF cs = <<>> THEN NoConn ELSE Head(cs)

\* an element of a connections list that is not an object (null)
Broken == [dsn |-> Undef, name |-> "null", is_primary |-> FALSE]

\* connections.find(conn => conn.is_primary === true); the callback reads
\* is_primary of each element up to the first match, which throws a
\* TypeError on an element that is not an object (result Broken)
RECURSIVE FindPrimary(_)
FindPrimary(cs) ==
  IF cs = <<>> THEN NoConn
  ELSE IF Head(cs) = Broken THEN Broken
  ELSE IF Head(cs).is_primary THEN Head(cs) ELSE FindPrimary(Tail(cs))

\* fetchFromApi's four blocks, one kind after the other: a primary replaces
\* the kind's entry; a TypeError leaves the function through its catch, with
\* the entries assigned before it in place
RECURSIVE FetchKinds(_, _, _)
FetchKinds(cfg, r, i) ==
  IF i > NKinds THEN cfg
  ELSE LET k == KindOrder[i]
           p == FindPrimary(r.conns[k])
       IN  IF p = Broken THEN cfg
           ELSE IF p.is_primary
             THEN FetchKinds([cfg EXCEPT ![k] =
                                [enabled |-> TRUE,
                                 url |-> IF Truthy(p.dsn) THEN p.dsn ELSE "",
                                 conn |-> p, opt |-> Undef]], r, i + 1)
           ELSE FetchKinds(cfg, r, i + 1)

\* fetchFromApi once makeApiRequest has answered r
FetchFromApi(cfg, r) ==
  IF r.status # "ok" \/ ~r.integrations THEN cfg
  ELSE FetchKinds(cfg, r, 1)

\* --------------------------------------------------------------- connectors
\* A connector object: its kind, whether its pool/client field is non-null,
\* the state of the handle it created ("none", "open", "closed": end()/quit()
\* was called on it or, for the search client, the reference was dropped),
\* whether its initialize() returned true, how often end()/quit() was called
\* on its handle, and the connection string the handle was created with.
NewConnector(k, cfg) ==
  [kind |-> k, cfg |-> cfg, pool |-> FALSE, handle |-> "none", ready |-> FALSE,
   ends |-> 0, target |-> Undef]

\* the connection source initialize() picks
ChooseSource(cfg) ==
  IF Truthy(cfg.conn.dsn) THEN "dsn"
  ELSE IF Truthy(cfg.url) THEN "url"
  ELSE "none"

\* faulty variant: the configured url is preferred to the connection's dsn
ConnectionString_UrlFirst(cfg) ==
  IF Truthy(cfg.url) THEN cfg.url
  ELSE IF Truthy(cfg.conn.dsn) THEN cfg.conn.dsn
  ELSE Undef

\* the connection string initialize() creates the pool or client with
ConnectionString(cfg) ==
  IF Truthy(cfg.conn.dsn) THEN cfg.conn.dsn
  ELSE IF Truthy(cfg.url) THEN cfg.url
  ELSE Undef

\* ------------------------------------------------------------------- state
VARIABLES
  env, file, apiKey, remote,  \* the configuration sources
  reachable,                  \* reachable[k]: the backend of kind k answers
  epoch,                      \* number of reachability changes so far
  stuck,                      \* the backends (and "api") that never answer
  config,                     \* ConfigManager.config: the four kinds' entries
  configKeys,                 \* the own keys of ConfigManager.config
  svc,                        \* ServiceManager's four connector fields (0: null)
  activeServices,             \* ServiceManager.activeServices
  tools,                      \* ServiceManager.tools (declaration names)
  isApiAuthenticated,         \* ServiceManager.isApiAuthenticated
  conns,                      \* every connector object constructed so far
  task,                       \* the calls in progress or completed
  backend,                    \* the backend a directly used connector talks to
  exited                      \* process.exit() was called

\* some configuration source names the kind
Configured(k) ==
  \/ Truthy(env[k])
  \/ file.state = "ok" /\ k \in file.keys
  \/ apiKey /\ remote.conns[k] # <<>>

envVars == <<env, file, apiKey, remote, reachable, epoch, stuck>>
mgrVars == <<config, configKeys, svc, activeServices, tools, isApiAuthenticated, conns>>
vars == <<env, file, apiKey, remote, reachable, epoch, stuck, config, configKeys, svc,
          activeServices, tools, isApiAuthenticated, conns, task, backend,
          exited>>

\* The backend as a directly used connector sees it: the content of the
\* relational table t (0: as it was when the connector was constructed), the
\* transaction state of the pooled connection, the number of connections
\* checked out of the pool, and what the latest execute operation sent, in
\* order (a release of the connection is entered as "release").
IdleBackend == [data |-> 0, tx |-> "none", lent |-> 0, log |-> <<>>]

\* a call that has not been made yet
NoTask ==
  [op |-> "none", name |-> "", pc |-> "idle", phase |-> "", i |-> 0, c |-> 0,
   alias |-> FALSE, cfg |-> Baseline, ret |-> "", att |-> {}, okk |-> {},
   clean |-> FALSE, pre |-> [k \in Kinds |-> 0], obs |-> "", reached |-> FALSE,
   e0 |-> 0, e1 |-> 0, endActive |-> <<>>, endTools |-> <<>>,
   endSvc |-> [k \in Kinds |-> 0], endLive |-> {},
   from |-> "", initOk |-> FALSE, sum |-> <<>>, refreshes |-> 0,
   arg |-> <<>>, index |-> Undef, res |-> "", d0 |-> 0, lost |-> FALSE,
   warned |-> FALSE]

\* The mutable program state as one record, so that the code between two
\* awaited I/O operations can be written as a composition of its steps.
World ==
  [config |-> config, keys |-> configKeys, svc |-> svc,
   active |-> activeServices, tools |-> tools,
   auth |-> isApiAuthenticated, conns |-> conns, task |-> task,
   backend |-> backend, exited |-> exited]

Commit(W) ==
  /\ config' = W.config
  /\ configKeys' = W.keys
  /\ svc' = W.svc
  /\ activeServices' = W.active
  /\ tools' = W.tools
  /\ isApiAuthenticated' = W.auth
  /\ conns' = W.conns
  /\ task' = W.task
  /\ backend' = W.backend
  /\ exited' = W.exited

\* the connector of kind k is referenced, initialized and not released
Live(W, k) ==
  /\ W.svc[k] # 0
  /\ W.conns[W.svc[k]].pool
  /\ W.conns[W.svc[k]].handle = "open"
  /\ W.conns[W.svc[k]].ready
LiveIn(W) == {k \in Kinds : Live(W, k)}

Running(tk) == tk.pc \notin {"idle", "done"}

\* the call returns (or throws) r: its local variables die, and the registry
\* state it leaves is recorded with it
Finish(W, t, r) ==
  [W EXCEPT !.task[t] = [@ EXCEPT !.pc = "done", !.ret = r, !.i = 0, !.c = 0,
                                  !.alias = FALSE, !.cfg = Baseline,
                                  !.e1 = epoch, !.endActive = W.active,
                                  !.endTools = W.tools, !.endSvc = W.svc,
                                  !.endLive = LiveIn(W)]]

\* the config object a call's local variable `config` refers to: the
\* ConfigManager's current object, or an object it has since replaced
TaskCfg(W, t) == IF W.task[t].alias THEN W.config ELSE W.task[t].cfg

\* ----------------------------------------------- ServiceManager.initialize
\* faulty variant: the refresh tool's declaration is pushed twice
AddRefreshTool_Twice(ts) == Append(Append(ts, RefreshTool), RefreshTool)

\* the refresh tool's declaration is pushed onto the tool list
AddRefreshTool(ts) == Append(ts, RefreshTool)

\* faulty variant: the summary's list is built before the refresh has run
RefreshSummary_Empty(W) == <<>>

\* the activeServices member of the summary executeTool returns for the
\* refresh tool
RefreshSummary(W) == W.active

\* initialize() returns: to initializeWithConfig, to the caller, or to
\* refreshServices, whose result executeTool turns into the status summary
InitializeReturn(W, t, success) ==
  IF W.task[t].op = "tool"
    THEN Finish([W EXCEPT !.task[t].initOk = success,
                          !.task[t].sum = RefreshSummary(W)],
                t, IF success THEN "success" ELSE "error")
    ELSE Finish([W EXCEPT !.task[t].initOk = success],
                t, IF success THEN "true" ELSE "false")

\* the connector of kind k is constructed and its initialize() runs up to
\* the connect/probe it awaits; without a connection source it returns false
\* at once and no handle is created
ConstructConnector(W, t, k) ==
  LET c == TaskCfg(W, t)[k]
      id == Len(W.conns) + 1
      obj == NewConnector(k, c)
  IN  IF ChooseSource(c) = "none"
        THEN [W EXCEPT !.conns = Append(@, obj), !.svc[k] = id,
                       !.task[t].att = @ \cup {k}]
        ELSE [W EXCEPT !.conns = Append(@, [obj EXCEPT !.pool = TRUE, !.handle = "open",
                                                       !.target = ConnectionString(c)]),
                       !.svc[k] = id, !.task[t].att = @ \cup {k}]

\* faulty variant: the failure branch leaves the failed connector in its field
DiscardConnector_Keep(W, k) == W

\* the failure branch of one kind: the connector is discarded
DiscardConnector(W, k) == [W EXCEPT !.svc[k] = 0]

\* faulty variant: a connector is constructed for every kind
EntryEnabled_Any(c) == TRUE

\* initialize()'s test if (config.<kind>.enabled)
EntryEnabled(c) == c.enabled

\* the kinds from the i-th on, up to the first connect/probe to await
RECURSIVE InitKinds(_, _, _)
InitKinds(W, t, i) ==
  IF i > NKinds
    THEN InitializeReturn([W EXCEPT !.tools = AddRefreshTool(@)], t, TRUE)
  ELSE LET k == KindOrder[i] IN
    IF ~EntryEnabled(TaskCfg(W, t)[k]) THEN InitKinds(W, t, i + 1)
    ELSE LET W1 == ConstructConnector(W, t, k) IN
      IF W1.conns[W1.svc[k]].pool
        THEN [W1 EXCEPT !.task[t].pc = "init_wait", !.task[t].i = i,
                        !.task[t].c = W1.svc[k]]
        ELSE InitKinds(DiscardConnector(W1, k), t, i + 1)

\* faulty variant: the connect or probe error leaves the connector's
\* initialize() as an exception
ConnectorInitializeResult_Throw(success) == IF success THEN "true" ELSE "throw"

\* what a connector's initialize() hands to the registry once its connect
\* and probe have answered: its try/catch turns an error into false; an
\* exception would end ServiceManager.initialize() in its own catch
ConnectorInitializeResult(success) == IF success THEN "true" ELSE "false"

\* the success branch of one kind; this.<kind>Service.getTools() throws a
\* TypeError when the field has been nulled meanwhile, which initialize()
\* catches and turns into a false return
RecordActive(W, t, k) ==
  LET W1 == [W EXCEPT !.active = Append(@, k), !.task[t].okk = @ \cup {k}] IN
  IF W1.svc[k] = 0
    THEN [ok |-> FALSE, W |-> W1]
    ELSE [ok |-> TRUE, W |-> [W1 EXCEPT !.tools = @ \o ConnectorTools(k)]]

\* the connect/probe of the awaited connector has answered
AfterConnectorInit(W, t, success) ==
  LET i == W.task[t].i
      k == KindOrder[i]
      W1 == [W EXCEPT !.conns[W.task[t].c].ready = success]
      o == ConnectorInitializeResult(success)
  IN  IF o = "true"
        THEN LET r == RecordActive(W1, t, k) IN
             IF r.ok THEN InitKinds(r.W, t, i + 1)
                     ELSE InitializeReturn(r.W, t, FALSE)
      ELSE IF o = "false" THEN InitKinds(DiscardConnector(W1, k), t, i + 1)
      ELSE InitializeReturn(W1, t, FALSE)

\* refreshConfigurations up to the remote request: a new config object
\* replaces the current one (the local variables that referred to the old
\* one keep it), then the environment and the file are applied
\* faulty variant: the entries of the previous run are kept as the start
ResetConfig_Keep(cfg) == cfg

\* refreshConfigurations' "Reset config" assignment
ResetConfig(cfg) == Baseline

RefreshConfigurationsSync(W) ==
  [W EXCEPT !.task = [u \in Tasks |->
                        IF W.task[u].alias
                          THEN [W.task[u] EXCEPT !.alias = FALSE, !.cfg = W.config]
                          ELSE W.task[u]],
            !.config = LoadFromFile(LoadFromEnv(ResetConfig(W.config), env), file),
            !.keys = FileKeys(Kinds, file)]

\* refreshConfigurations has returned this.config to initialize()
EnterKinds(W, t) ==
  InitKinds([W EXCEPT !.task[t].alias = TRUE, !.auth = apiKey], t, 1)

Cleared(W) ==
  /\ W.active = <<>>
  /\ W.tools = <<>>
  /\ \A k \in Kinds : W.svc[k] = 0

\* initialize() from its first line
StartInitialize(W, t) ==
  LET W1 == RefreshConfigurationsSync(
              [W EXCEPT !.task[t].phase = "initialize", !.task[t].att = {},
                        !.task[t].okk = {}, !.task[t].clean = Cleared(W)])
  IN  IF apiKey THEN [W1 EXCEPT !.task[t].pc = "cfg_wait"]
                ELSE EnterKinds(W1, t)

\* initializeWithConfig from its first line: it refreshes the configuration
\* itself before it calls initialize()
StartStartup(W, t) ==
  LET W1 == RefreshConfigurationsSync([W EXCEPT !.task[t].phase = "precfg"])
  IN  IF apiKey THEN [W1 EXCEPT !.task[t].pc = "cfg_wait"]
                ELSE StartInitialize(W1, t)

\* faulty variant: with nothing enabled the call fails
ConfigReturn_Throw(W, t) ==
  Finish(W, t, IF W.config = Baseline THEN "throw" ELSE "config")

\* refreshConfigurations' return this.config, after the try or from its catch
ConfigReturn(W, t) == Finish(W, t, "config")

\* makeApiRequest has answered
AfterConfig(W, t) ==
  LET W1 == [W EXCEPT !.config = FetchFromApi(@, remote)] IN
  IF W.task[t].phase = "precfg" THEN StartInitialize(W1, t)
  ELSE IF W.task[t].phase = "config" THEN ConfigReturn(W1, t)
  ELSE EnterKinds(W1, t)

\* refreshConfigurations() called on its own, from its first line: without
\* an API key fetchFromApi returns before it makes any request
StartRefreshConfigurations(W, t) ==
  LET W1 == RefreshConfigurationsSync([W EXCEPT !.task[t].phase = "config"])
  IN  IF apiKey THEN [W1 EXCEPT !.task[t].pc = "cfg_wait"]
                ELSE ConfigReturn(W1, t)

\* ------------------------------------------------- ServiceManager.shutdown
\* faulty variant: the reset forgets the active-services list
ResetState_KeepActive(W) ==
  [W EXCEPT !.tools = <<>>, !.svc = [k \in Kinds |-> 0]]

\* faulty variant: the reset forgets the tool list
ResetState_KeepTools(W) ==
  [W EXCEPT !.active = <<>>, !.svc = [k \in Kinds |-> 0]]

\* refreshServices' "Reset state" lines
ResetState(W) ==
  [W EXCEPT !.active = <<>>, !.tools = <<>>, !.svc = [k \in Kinds |-> 0]]

\* shutdown() returns: refreshServices resets the state and initializes
\* again, the signal handler exits the process, another caller goes on
AfterShutdown(W, t) ==
  CASE W.task[t].op = "tool"   -> StartInitialize(ResetState(W), t)
    [] W.task[t].op = "signal" -> [Finish(W, t, "exit") EXCEPT !.exited = TRUE]
    [] OTHER                   -> Finish(W, t, "void")

\* OpenSearchService.shutdown: the client reference is dropped, nothing is
\* awaited
DropClient(W, c) ==
  [W EXCEPT !.conns[c].pool = FALSE,
            !.conns[c].handle = IF @ = "open" THEN "closed" ELSE @]

\* the shutdown() of a pooled connector up to the end()/quit() it awaits
CallEnd(W, c) ==
  [W EXCEPT !.conns[c].handle = "closed", !.conns[c].ends = @ + 1]

\* the kinds from the i-th on, up to the first end()/quit() to await
RECURSIVE ShutKinds(_, _, _)
ShutKinds(W, t, i) ==
  IF i > NKinds THEN AfterShutdown(W, t)
  ELSE LET k == KindOrder[i]
           c == W.svc[k]
       IN  IF c = 0 THEN ShutKinds(W, t, i + 1)
           ELSE IF k = "opensearch" THEN ShutKinds(DropClient(W, c), t, i + 1)
           ELSE IF W.conns[c].pool
             THEN [CallEnd(W, c) EXCEPT !.task[t].pc = "end_wait",
                                        !.task[t].i = i, !.task[t].c = c]
             ELSE ShutKinds(W, t, i + 1)

\* end()/quit() has answered: the connector nulls its field and shutdown()
\* goes on with the next kind, or the rejection lands in shutdown()'s catch,
\* which logs it and returns
AfterEnd(W, t, outcome) ==
  IF outcome = "ok"
    THEN ShutKinds([W EXCEPT !.conns[W.task[t].c].pool = FALSE], t, W.task[t].i + 1)
    ELSE AfterShutdown(W, t)

StartShutdown(W, t) == ShutKinds([W EXCEPT !.task[t].phase = "shutdown"], t, 1)

\* ---------------------------------------------- ServiceManager.executeTool
IsRefresh(tk) == tk.op = "tool" /\ tk.name = RefreshTool

\* what a backend tool call finds when it reads the connector fields: no
\* refresh in progress, the complete connector set a refresh in progress
\* started from, or a set that refresh has partly released or rebuilt
Observation(W) ==
  LET R == {u \in Tasks : IsRefresh(W.task[u]) /\ Running(W.task[u])} IN
  IF R = {} THEN "quiet"
  ELSE IF \A u \in R : /\ W.svc = W.task[u].pre
                       /\ \A k \in Kinds : W.svc[k] # 0 => Live(W, k)
    THEN "pre"
    ELSE "partial"

\* a backend case of the switch: the null check of the registry, the null
\* check of the connector, then the backend call the connector awaits
ExecuteBackendTool(W, t, name) ==
  LET k == KindOfTool(name)
      c == W.svc[k]
      W1 == [W EXCEPT !.task[t].obs = Observation(W)]
  IN  IF c = 0 THEN Finish(W1, t, "not_initialized")
      ELSE IF ~W.conns[c].pool THEN Finish(W1, t, "not_initialized")
      ELSE IF W.conns[c].handle # "open" THEN Finish(W1, t, "error")
      ELSE [W1 EXCEPT !.task[t].pc = "exec_wait", !.task[t].c = c,
                      !.task[t].reached = TRUE]

\* refreshServices from its first line
StartRefresh(W, t) ==
  StartShutdown([W EXCEPT !.task[t].pre = W.svc, !.task[t].refreshes = @ + 1], t)

\* faulty variant: an unknown name falls into the reset of the refresh case
UnknownTool_Reset(W, t) ==
  Finish([W EXCEPT !.active = <<>>, !.tools = <<>>], t, "unknown_tool")

\* the default case of the switch: throw new Error(`Unknown tool: ...`)
UnknownTool(W, t) == Finish(W, t, "unknown_tool")

ExecuteTool(W, t, name) ==
  IF name = RefreshTool THEN StartRefresh(W, t)
  ELSE IF name \in BackendTools THEN ExecuteBackendTool(W, t, name)
  ELSE UnknownTool(W, t)

\* getTools() returns this.tools
GetTools(W, t) == Finish(W, t, "list")

\* getActiveServices() returns this.activeServices
GetActiveServices(W, t) == Finish(W, t, "active")

\* faulty variant: a failed backend call deactivates the services
AfterExec_Deactivate(W, t, outcome) ==
  Finish(IF outcome = "error" THEN [W EXCEPT !.active = <<>>] ELSE W, t, outcome)

\* the backend case returns what the connector returned, or throws its error
AfterExec(W, t, outcome) == Finish(W, t, outcome)

\* ----------------------------------------------------------------- actions
\* The lifecycle state the calls made so far leave the registry in, as the
\* specification's state machine names it: LifeAfter(tk) after the call tk
\* that started in state tk.from.
LifeAfter(tk) ==
  CASE tk.op \in {"initialize", "startup"}           -> "Ready"
    [] tk.op = "tool" /\ tk.name = RefreshTool        -> "Ready"
    [] tk.op \in {"shutdown", "signal"}               -> "Shutdown"
    [] OTHER                                          -> tk.from
LifeBefore(t) == IF t = 1 THEN "Uninitialized" ELSE LifeAfter(task[t - 1])

NewTask(o, n) == [NoTask EXCEPT !.op = o, !.name = n, !.pc = "run", !.e0 = epoch]
\* a completed call is remembered until the call after the next one starts
Forgotten == [NoTask EXCEPT !.op = "old", !.pc = "done"]
Begin(t, o, n) ==
  [World EXCEPT !.task = [u \in Tasks |->
     IF u = t THEN [NewTask(o, n) EXCEPT !.from = LifeBefore(t)]
     ELSE IF u < t - 1 /\ task[u].pc = "done" THEN Forgotten
     ELSE task[u]]]

Quiescent == \A u \in Tasks : ~Running(task[u])
\* the calls take the slots in order
NextSlot(t) == task[t].pc = "idle" /\ \A u \in 1..(t - 1) : task[u].pc # "idle"

\* index.ts, module load: initializeWithConfig() is called and not awaited
Startup ==
  /\ ~exited
  /\ task[1].pc = "idle"
  /\ Commit(StartStartup(Begin(1, "startup", ""), 1))
  /\ UNCHANGED envVars

\* index.ts, CallToolRequestSchema handler
CallTool(t, name) ==
  /\ ~exited
  /\ t > 1 /\ NextSlot(t)
  /\ Commit(ExecuteTool(Begin(t, "tool", name), t, name))
  /\ UNCHANGED envVars

\* index.ts, SIGINT / SIGTERM handler: shutdown() is awaited, then exit
Signal(t) ==
  /\ ~exited
  /\ t > 1 /\ NextSlot(t)
  /\ Commit(StartShutdown(Begin(t, "signal", ""), t))
  /\ UNCHANGED envVars

\* index.ts, ListToolsRequestSchema handler; ServiceManager.getTools
ListTools(t) ==
  /\ ~exited
  /\ t > 1 /\ NextSlot(t)
  /\ Commit(GetTools(Begin(t, "getTools", ""), t))
  /\ UNCHANGED envVars

\* the remote configuration request answers (makeApiRequest sets no timeout:
\* the promise settles only when the response, or a socket error, arrives)
ResumeConfig(t) ==
  /\ ~exited
  /\ task[t].pc = "cfg_wait"
  /\ "api" \notin stuck
  /\ Commit(AfterConfig([World EXCEPT !.task[t].pc = "run"], t))
  /\ UNCHANGED envVars

\* a connector's connect and liveness probe answer (initialize() awaits them
\* with no timer: it resumes only when the backend answers or refuses)
ResumeInit(t) ==
  /\ ~exited
  /\ task[t].pc = "init_wait"
  /\ KindOrder[task[t].i] \notin stuck
  /\ Commit(AfterConnectorInit([World EXCEPT !.task[t].pc = "run"], t,
                               reachable[KindOrder[task[t].i]]))
  /\ UNCHANGED envVars

\* a pool's end() or a client's quit() answers
ResumeEnd(t, outcome) ==
  /\ ~exited
  /\ task[t].pc = "end_wait"
  /\ Commit(AfterEnd([World EXCEPT !.task[t].pc = "run"], t, outcome))
  /\ UNCHANGED envVars

\* a backend call answers: with a result, or with an error when the backend
\* is unreachable or the handle was ended while the call was in flight
ResumeExec(t, outcome) ==
  /\ ~exited
  /\ task[t].pc = "exec_wait"
  /\ LET k == conns[task[t].c].kind IN
       \/ outcome = "ok" /\ reachable[k]
       \/ outcome = "error" /\ (~reachable[k] \/ conns[task[t].c].handle # "open")
  /\ Commit(AfterExec(World, t, outcome))
  /\ UNCHANGED envVars

\* a configured backend becomes unreachable or reachable again between two
\* calls
EnvChange(k) ==
  /\ Quiescent
  /\ Configured(k)
  /\ epoch < MaxEnvChanges
  /\ reachable' = [reachable EXCEPT ![k] = ~@]
  /\ epoch' = epoch + 1
  /\ UNCHANGED <<env, file, apiKey, remote, stuck, mgrVars, task, backend, exited>>

\* a caller of the ServiceManager class that makes one call after the other
ApiInitialize(t) ==
  /\ Quiescent /\ NextSlot(t)
  /\ Commit(StartInitialize(Begin(t, "initialize", ""), t))
  /\ UNCHANGED envVars

ApiExecuteTool(t, name) ==
  /\ Quiescent /\ NextSlot(t)
  /\ Commit(ExecuteTool(Begin(t, "tool", name), t, name))
  /\ UNCHANGED envVars

ApiGetTools(t) ==
  /\ Quiescent /\ NextSlot(t)
  /\ Commit(GetTools(Begin(t, "getTools", ""), t))
  /\ UNCHANGED envVars

ApiGetActiveServices(t) ==
  /\ Quiescent /\ NextSlot(t)
  /\ Commit(GetActiveServices(Begin(t, "getActiveServices", ""), t))
  /\ UNCHANGED envVars

ApiShutdown(t) ==
  /\ Quiescent /\ NextSlot(t)
  /\ Commit(StartShutdown(Begin(t, "shutdown", ""), t))
  /\ UNCHANGED envVars

\* between two calls a configuration source stops providing anything: the
\* URL variables are unset, the file is removed, or the remote request
\* begins to fail (the API key is read once, in the constructor)
SourceChange(what) ==
  /\ Quiescent
  /\ epoch < MaxEnvChanges
  /\ \/ what = "env" /\ env # NoEnv /\ env' = NoEnv /\ UNCHANGED <<file, remote>>
     \/ what = "file" /\ file # NoFile /\ file' = NoFile /\ UNCHANGED <<env, remote>>
     \/ /\ what = "remote" /\ apiKey /\ remote.status = "ok"
        /\ remote' = [NoRemote EXCEPT !.status = "error"]
        /\ UNCHANGED <<env, file>>
  /\ epoch' = epoch + 1
  /\ UNCHANGED <<apiKey, reachable, stuck, mgrVars, task, backend, exited>>

\* a caller of ConfigManager.refreshConfigurations()
ApiRefreshConfigurations(t) ==
  /\ Quiescent /\ NextSlot(t)
  /\ Commit(StartRefreshConfigurations(Begin(t, "config", ""), t))
  /\ UNCHANGED envVars

\* ---------------------------------------------------------- specifications
InitState ==
  /\ \E s \in Sources :
       /\ env = s.env
       /\ file = s.file
       /\ apiKey = s.apiKey
       /\ remote = s.remote
  /\ reachable = [k \in Kinds |-> TRUE]
  /\ epoch = 0
  /\ config = Baseline
  /\ configKeys = Kinds
  /\ svc = [k \in Kinds |-> 0]
  /\ activeServices = <<>>
  /\ tools = <<>>
  /\ isApiAuthenticated = FALSE
  /\ conns = <<>>
  /\ task = [t \in Tasks |-> NoTask]
  /\ backend = IdleBackend
  /\ exited = FALSE

\* every backend answers sooner or later
Init == InitState /\ stuck = {}

\* the gateway process of index.ts: requests and signals overlap
Next ==
  \/ Startup
  \/ \E t \in Tasks, name \in ToolNames : CallTool(t, name)
  \/ \E t \in Tasks : Signal(t)
  \/ \E t \in Tasks : ListTools(t)
  \/ \E t \in Tasks : ResumeConfig(t)
  \/ \E t \in Tasks : ResumeInit(t)
  \/ \E t \in Tasks, o \in {"ok", "throw"} : ResumeEnd(t, o)
  \/ \E t \in Tasks, o \in {"ok", "error"} : ResumeExec(t, o)
  \/ \E k \in Kinds : EnvChange(k)

Spec == Init /\ [][Next]_vars

\* the ServiceManager class under a caller that awaits every call
NextApi ==
  \/ \E t \in Tasks : ApiInitialize(t)
  \/ \E t \in Tasks, name \in ToolNames : ApiExecuteTool(t, name)
  \/ \E t \in Tasks : ApiShutdown(t)
  \/ \E t \in Tasks : ApiGetTools(t)
  \/ \E t \in Tasks : ApiGetActiveServices(t)
  \/ \E t \in Tasks : ResumeConfig(t)
  \/ \E t \in Tasks : ResumeInit(t)
  \/ \E t \in Tasks, o \in {"ok", "throw"} : ResumeEnd(t, o)
  \/ \E t \in Tasks, o \in {"ok", "error"} : ResumeExec(t, o)
  \/ \E k \in Kinds : EnvChange(k)

SpecApi == Init /\ [][NextApi]_vars

\* ConfigManager.refreshConfigurations() as a function of its three sources.
\* The sources vary in full for postgres and in part for redis: the URL
\* variable set or not; the file absent, malformed, or parsed with the kind
\* among its keys or not, with or without a url and an option; the API key
\* set or not; the remote request failing, answering without integrations,
\* or answering with no connection, only non-primary ones, a primary that is
\* not the first, a primary without dsn, two primaries, or a list whose
\* element is not an object.
EnvUrl == "url://env"
FileUrl == "url://file"
FileOpt == "ssl"
Replica == [dsn |-> "dsn://replica", name |-> "replica", is_primary |-> FALSE]
Main == [dsn |-> "dsn://main", name |-> "main", is_primary |-> TRUE]
Second == [dsn |-> "dsn://second", name |-> "second", is_primary |-> TRUE]
Bare == [dsn |-> Undef, name |-> "bare", is_primary |-> TRUE]
ConnLists == {<<>>, <<Replica>>, <<Replica, Main>>, <<Bare>>, <<Second, Main>>}
EnvInputs ==
  {[NoEnv EXCEPT !["postgres"] = a, !["redis"] = b] : a, b \in {Undef, EnvUrl}}
FileInputs ==
  {NoFile, [NoFile EXCEPT !.state = "malformed"],
   [NoFile EXCEPT !.state = "malformed", !.keys = {"postgres", "redis"},
                  !.url["postgres"] = FileUrl]} \cup
  {[NoFile EXCEPT !.state = "ok", !.keys = ks, !.url["postgres"] = u,
                  !.opt["postgres"] = o] :
     ks \in {{}, {"postgres"}, {"postgres", "redis", "other"},
             {"redis", "constructor"}},
     u \in {Undef, FileUrl}, o \in {Undef, FileOpt}} \cup
  {[NoFile EXCEPT !.state = "ok", !.keys = {"postgres"}, !.off = {"postgres"},
                  !.url["postgres"] = u] : u \in {Undef, FileUrl}}
RemoteInputs ==
  {NoRemote, [NoRemote EXCEPT !.status = "error"], [NoRemote EXCEPT !.status = "ok"]} \cup
  {[status |-> "ok", integrations |-> TRUE,
    conns |-> [k \in Kinds |-> IF k = "postgres" THEN p
                               ELSE IF k = "redis" THEN r ELSE <<>>]] :
     p \in ConnLists \cup {<<Broken>>}, r \in {<<>>, <<Main>>, <<Broken>>}}
InitCfg ==
  /\ env \in EnvInputs
  /\ file \in FileInputs
  /\ apiKey \in BOOLEAN
  /\ remote \in (IF apiKey THEN RemoteInputs ELSE {NoRemote})
  /\ reachable = [k \in Kinds |-> TRUE]
  /\ epoch = 0
  /\ stuck = {}
  /\ config = Baseline
  /\ configKeys = Kinds
  /\ svc = [k \in Kinds |-> 0]
  /\ activeServices = <<>>
  /\ tools = <<>>
  /\ isApiAuthenticated = FALSE
  /\ conns = <<>>
  /\ task = [t \in Tasks |-> NoTask]
  /\ backend = IdleBackend
  /\ exited = FALSE
NextCfg ==
  \/ \E t \in Tasks : ApiRefreshConfigurations(t)
  \/ \E t \in Tasks : ApiInitialize(t)
  \/ \E t \in Tasks : ResumeConfig(t)
  \/ \E t \in Tasks : ResumeInit(t)
  \/ \E what \in {"env", "file", "remote"} : SourceChange(what)
SpecCfg == InitCfg /\ [][NextCfg]_vars

\* ------------------------------------------------ a connector used directly
\* One connector object of any kind, constructed from an enabled entry with a
\* url, with a remote connection that has a dsn, with one that has none, or
\* with no connection source at all; its backend answers or does not.  The
\* caller calls initialize(), an execute operation and shutdown() in any
\* order and awaits each call.
ConnEntries ==
  { [Disabled EXCEPT !.enabled = TRUE, !.url = EnvUrl],
    [Disabled EXCEPT !.enabled = TRUE, !.url = Main.dsn, !.conn = Main],
    [Disabled EXCEPT !.enabled = TRUE, !.url = EnvUrl, !.conn = Main],
    [Disabled EXCEPT !.enabled = TRUE, !.url = EnvUrl, !.conn = Bare],
    [Disabled EXCEPT !.enabled = TRUE, !.url = "", !.conn = Bare],
    [Disabled EXCEPT !.enabled = TRUE] }

\* <Kind>Service.initialize() up to the connect/probe it awaits: the pool or
\* client is created and assigned first
ConnectorInitialize(W, t, c) ==
  IF ChooseSource(W.conns[c].cfg) = "none" THEN Finish(W, t, "false")
  ELSE [W EXCEPT !.conns[c].pool = TRUE, !.conns[c].handle = "open",
                 !.conns[c].ends = 0,
                 !.conns[c].target = ConnectionString(W.conns[c].cfg),
                 !.task[t].pc = "cinit_wait", !.task[t].c = c]

\* the connect and the probe have answered
ConnectorAfterInit(W, t, success) ==
  Finish([W EXCEPT !.conns[W.task[t].c].ready = success], t,
         ConnectorInitializeResult(success))

\* executeQuery / executeCommand / get / set / search: the null check of the
\* pool or client field, then the backend call
ConnectorExecute(W, t, c) ==
  IF ~W.conns[c].pool THEN Finish(W, t, "not_initialized")
  ELSE IF W.conns[c].handle # "open" THEN Finish(W, t, "error")
  ELSE [W EXCEPT !.task[t].pc = "exec_wait", !.task[t].c = c,
                 !.task[t].reached = TRUE]

\* <Kind>Service.shutdown() up to the end()/quit() it awaits
ConnectorShutdown(W, t, c) ==
  IF W.conns[c].kind = "opensearch" THEN Finish(DropClient(W, c), t, "void")
  ELSE IF W.conns[c].pool
    THEN [CallEnd(W, c) EXCEPT !.task[t].pc = "cend_wait", !.task[t].c = c]
  ELSE Finish(W, t, "void")

\* end()/quit() has answered: the field is nulled, or the rejection leaves
\* shutdown() before the assignment
ConnectorAfterEnd(W, t, outcome) ==
  IF outcome = "ok"
    THEN Finish([W EXCEPT !.conns[W.task[t].c].pool = FALSE], t, "void")
    ELSE Finish(W, t, "throw")

ConnInitialize(t) ==
  /\ Quiescent /\ NextSlot(t)
  /\ Commit(ConnectorInitialize(Begin(t, "c_initialize", ""), t, 1))
  /\ UNCHANGED envVars

ConnExecute(t) ==
  /\ Quiescent /\ NextSlot(t)
  /\ Commit(ConnectorExecute(Begin(t, "c_execute", ""), t, 1))
  /\ UNCHANGED envVars

ConnShutdown(t) ==
  /\ Quiescent /\ NextSlot(t)
  /\ Commit(ConnectorShutdown(Begin(t, "c_shutdown", ""), t, 1))
  /\ UNCHANGED envVars

ConnResumeInit(t) ==
  /\ task[t].pc = "cinit_wait"
  /\ conns[task[t].c].kind \notin stuck
  /\ Commit(ConnectorAfterInit([World EXCEPT !.task[t].pc = "run"], t,
                               reachable[conns[task[t].c].kind]))
  /\ UNCHANGED envVars

ConnResumeEnd(t, outcome) ==
  /\ task[t].pc = "cend_wait"
  /\ Commit(ConnectorAfterEnd([World EXCEPT !.task[t].pc = "run"], t, outcome))
  /\ UNCHANGED envVars

InitConn ==
  /\ env = NoEnv
  /\ file = NoFile
  /\ apiKey = FALSE
  /\ remote = NoRemote
  /\ \E r \in BOOLEAN : reachable = [k \in Kinds |-> r]
  /\ epoch = 0
  /\ stuck = {}
  /\ config = Baseline
  /\ configKeys = Kinds
  /\ svc = [k \in Kinds |-> 0]
  /\ activeServices = <<>>
  /\ tools = <<>>
  /\ isApiAuthenticated = FALSE
  /\ \E k \in Kinds, e \in ConnEntries : conns = <<NewConnector(k, e)>>
  /\ task = [t \in Tasks |-> NoTask]
  /\ backend = IdleBackend
  /\ exited = FALSE
NextConn ==
  \/ \E t \in Tasks : ConnInitialize(t)
  \/ \E t \in Tasks : ConnExecute(t)
  \/ \E t \in Tasks : ConnShutdown(t)
  \/ \E t \in Tasks : ConnResumeInit(t)
  \/ \E t \in Tasks, o \in {"ok", "throw"} : ConnResumeEnd(t, o)
  \/ \E t \in Tasks, o \in {"ok", "error"} : ResumeExec(t, o)
SpecConn == InitConn /\ [][NextConn]_vars

\* --------------------------------- the execute operations of a connector
\* SQL texts a caller passes to executeQuery(): a read, a mutating statement,
\* and a text of two statements of which the first ends the transaction
SelectText == "SELECT * FROM t"
DeleteText == "DELETE FROM t"
StackedText == "COMMIT; DELETE FROM t"
SqlTexts == {SelectText, DeleteText, StackedText}
Mutating(sql) == sql # SelectText

\* the statements executeQuery() sends before the caller's text
Opening(k) ==
  IF k = "postgres" THEN <<"BEGIN TRANSACTION READ ONLY">>
  ELSE <<"SET SESSION TRANSACTION READ ONLY", "BEGIN">>

\* What the database does with a text it received, and what the driver's
\* promise resolves to.  A mutating statement inside a read-only transaction
\* is refused.  client.query(text) of pg sends the text as one simple query,
\* which may hold several statements: COMMIT ends the transaction and the
\* statement after it runs on its own; the result is then an array, whose
\* .rows is undefined.  mysql2 refuses a text of several statements.
DbAnswer(k, b, text) ==
  IF text \in {"BEGIN TRANSACTION READ ONLY", "BEGIN"}
    THEN [b |-> [b EXCEPT !.tx = "ro"], out |-> "ok"]
  ELSE IF text = "SET SESSION TRANSACTION READ ONLY" THEN [b |-> b, out |-> "ok"]
  ELSE IF text = "ROLLBACK" THEN [b |-> [b EXCEPT !.tx = "none"], out |-> "ok"]
  ELSE IF text = SelectText THEN [b |-> b, out |-> "rows"]
  ELSE IF text = DeleteText
    THEN IF b.tx = "ro" THEN [b |-> b, out |-> "error"]
         ELSE [b |-> [b EXCEPT !.data = 1], out |-> "rows"]
  ELSE IF k = "postgres"
    THEN [b |-> [b EXCEPT !.tx = "none", !.data = 1], out |-> "undefined"]
    ELSE [b |-> b, out |-> "error"]

\* a statement goes out on the checked-out connection
Send(W, t, phase, i, text) ==
  [W EXCEPT !.backend.log = Append(@, text),
            !.task[t].pc = "query_wait", !.task[t].phase = phase,
            !.task[t].i = i]

\* executeQuery(sql) up to the pool.connect() it awaits
ExecuteQuery(W, t, c, sql) ==
  LET W1 == [W EXCEPT !.task[t].arg = sql, !.task[t].d0 = W.backend.data,
                      !.task[t].c = c, !.backend.log = <<>>]
  IN  IF ~W.conns[c].pool THEN Finish(W1, t, "not_initialized")
      ELSE [W1 EXCEPT !.task[t].pc = "query_wait", !.task[t].phase = "connect",
                      !.task[t].reached = TRUE]

\* faulty variant: a rollback failure replaces the outcome of the query
FinishQuery_Escalate(W, t) ==
  Finish(W, t, IF W.task[t].warned THEN "error" ELSE W.task[t].res)

\* the end of the finally block: client.release(), then the pending return
\* value or error of the try block
FinishQuery(W, t) == Finish(W, t, W.task[t].res)

\* the awaited operation of executeQuery() has answered
QueryStep(W, t, ok) ==
  LET tk == W.task[t]
      k == W.conns[tk.c].kind
      Failed == [W EXCEPT !.task[t].res = "error", !.task[t].lost = TRUE]
  IN  IF tk.phase = "connect"
        THEN IF ok
               THEN Send([W EXCEPT !.backend.lent = @ + 1], t, "open", 1,
                         Opening(k)[1])
               ELSE Finish(Failed, t, "error")
      ELSE IF tk.phase = "open"
        THEN IF ~ok THEN Send(Failed, t, "rollback", 0, "ROLLBACK")
             ELSE LET a == DbAnswer(k, W.backend, Opening(k)[tk.i])
                      W1 == [W EXCEPT !.backend = a.b]
                  IN  IF tk.i < Len(Opening(k))
                        THEN Send(W1, t, "open", tk.i + 1, Opening(k)[tk.i + 1])
                        ELSE Send(W1, t, "query", 0, tk.arg)
      ELSE IF tk.phase = "query"
        THEN IF ~ok THEN Send(Failed, t, "rollback", 0, "ROLLBACK")
             ELSE LET a == DbAnswer(k, W.backend, tk.arg)
                  IN  Send([W EXCEPT !.backend = a.b, !.task[t].res = a.out],
                           t, "rollback", 0, "ROLLBACK")
      ELSE LET W1 == IF ok
                       THEN [W EXCEPT !.backend = DbAnswer(k, W.backend, "ROLLBACK").b]
                       ELSE [W EXCEPT !.task[t].warned = TRUE]
           IN  FinishQuery([W1 EXCEPT !.backend.lent = @ - 1,
                                      !.backend.log = Append(@, "release")], t)

ExecQuery(t, sql) ==
  /\ Quiescent /\ NextSlot(t)
  /\ conns[1].kind \in {"postgres", "mysql"}
  /\ Commit(ExecuteQuery(Begin(t, "c_query", ""), t, 1, sql))
  /\ UNCHANGED envVars

\* the backend answers the awaited operation, or the operation fails
ResumeQuery(t, ok) ==
  /\ task[t].pc = "query_wait"
  /\ ok => reachable[conns[task[t].c].kind] /\ conns[task[t].c].handle = "open"
  /\ Commit(QueryStep([World EXCEPT !.task[t].pc = "run"], t, ok))
  /\ UNCHANGED envVars

\* A command string is a sequence of words (maximal runs of characters that
\* are not white space) and single white space characters.
Sp == " "
CommandInputs ==
  { <<"GET", Sp, "mykey">>, <<"get", Sp, "mykey">>, <<"GET", Sp, Sp, "mykey">>,
    <<Sp, "GET", Sp, "mykey">>, <<"GET", Sp, "mykey", Sp>>, <<"GET">>,
    <<"SADD", Sp, "s", Sp, "m">>, <<"FLUSHALL">>, <<"flushall">>,
    <<Sp, "FLUSHALL">>, <<"SET", Sp, "mykey", Sp, "m">>, <<>> }

\* String.prototype.split(/\s+/): the pieces between the runs of white
\* space; a run at the start or the end leaves an empty piece there, and the
\* empty string gives one empty piece
RECURSIVE DropSpaces(_)
DropSpaces(s) == IF s # <<>> /\ Head(s) = Sp THEN DropSpaces(Tail(s)) ELSE s
RECURSIVE SplitSpaces(_)
SplitSpaces(s) ==
  LET word == s # <<>> /\ Head(s) # Sp
      rest == IF word THEN Tail(s) ELSE s
  IN  IF rest = <<>> THEN <<IF word THEN Head(s) ELSE "">>
      ELSE <<IF word THEN Head(s) ELSE "">> \o SplitSpaces(DropSpaces(rest))

\* String.prototype.toUpperCase on the words used here
ToUpperCase(w) ==
  CASE w = "get" -> "GET"
    [] w = "flushall" -> "FLUSHALL"
    [] w = "mykey" -> "MYKEY"
    [] w = "s" -> "S"
    [] w = "m" -> "M"
    [] OTHER -> w

AllowedCommands ==
  {"GET", "MGET", "STRLEN", "HGET", "HGETALL", "HMGET", "HLEN", "HKEYS",
   "HVALS", "LLEN", "LRANGE", "LINDEX", "SISMEMBER", "SMEMBERS", "SCARD",
   "ZRANGE", "ZRANGEBYSCORE", "ZCARD", "ZSCORE", "ZCOUNT", "KEYS", "TYPE",
   "TTL", "EXISTS", "INFO", "SCAN",
   "SINTER", "SUNION", "SDIFF", "SRANDMEMBER",
   "SADD", "SREM", "SPOP", "SMOVE", "SINTERSTORE", "SUNIONSTORE", "SDIFFSTORE"}

\* faulty variant: the name is compared as it was written
CommandName_AsWritten(parts) == parts[1]

\* const commandName = commandParts[0].toUpperCase()
CommandName(parts) == ToUpperCase(parts[1])

\* RedisService.executeCommand(command) up to the sendCommand() it returns
ExecuteCommand(W, t, c, cmd) ==
  LET W1 == [W EXCEPT !.task[t].arg = cmd, !.task[t].c = c, !.backend.log = <<>>]
      commandParts == SplitSpaces(cmd)
  IN  IF ~W.conns[c].pool THEN Finish(W1, t, "not_initialized")
      ELSE IF CommandName(commandParts) \notin AllowedCommands
        THEN Finish(W1, t, "not_allowed")
      ELSE [W1 EXCEPT !.backend.log = <<commandParts>>,
                      !.task[t].pc = "command_wait", !.task[t].reached = TRUE]

ExecCommand(t, cmd) ==
  /\ Quiescent /\ NextSlot(t)
  /\ conns[1].kind = "redis"
  /\ Commit(ExecuteCommand(Begin(t, "c_command", ""), t, 1, cmd))
  /\ UNCHANGED envVars

\* the arguments sent hold no empty string
WellFormed(parts) == "" \notin SeqToSet(parts)

\* the server replies to the command sent: with a value when it is reached,
\* with an error when it is not or (possibly) when an argument is empty
ResumeCommand(t, ok) ==
  /\ task[t].pc = "command_wait"
  /\ LET live == reachable["redis"] /\ conns[task[t].c].handle = "open" IN
       IF ok THEN live ELSE ~live \/ ~WellFormed(backend.log[1])
  /\ Commit(Finish(World, t, IF ok THEN "ok" ELSE "error"))
  /\ UNCHANGED envVars

\* Query strings a caller passes to search(): a JSON object, a JSON number,
\* a query in query-string syntax, a truncated JSON text, the empty string
MatchAllText == "{\"query\":{\"match_all\":{}}}"
QueryInputs == {MatchAllText, "42", "title:skeet", "{\"query\":", ""}
IndexInputs == {Undef, "", "logs"}

\* JSON.parse on these strings: the value, or a SyntaxError
MatchAll == [json |-> "object", query |-> [match_all |-> "{}"]]
JsonParse(q) ==
  CASE q = MatchAllText -> [ok |-> TRUE, value |-> MatchAll]
    [] q = "42" -> [ok |-> TRUE, value |-> [json |-> "number", n |-> 42]]
    [] OTHER -> [ok |-> FALSE, value |-> [json |-> "SyntaxError"]]

\* { query: { query_string: { query: query } } }
QueryStringBody(q) == [json |-> "object", query |-> [query_string |-> [query |-> q]]]

\* faulty variant: the string is never parsed
ParsedQuery_Wrapped(q) == QueryStringBody(q)

\* try { parsedQuery = JSON.parse(query) } catch (e) { parsedQuery = {...} }
ParsedQuery(q) == IF JsonParse(q).ok THEN JsonParse(q).value ELSE QueryStringBody(q)

\* searchParams: the body, and the index if (index)
SearchParams(q, index) ==
  [body |-> ParsedQuery(q), hasIndex |-> Truthy(index),
   index |-> IF Truthy(index) THEN index ELSE Undef]

\* OpenSearchService.search(query, index) up to the client.search() it awaits
Search(W, t, c, q, index) ==
  LET W1 == [W EXCEPT !.task[t].arg = q, !.task[t].index = index,
                      !.task[t].c = c, !.backend.log = <<>>]
  IN  IF ~W.conns[c].pool THEN Finish(W1, t, "not_initialized")
      ELSE [W1 EXCEPT !.backend.log = <<SearchParams(q, index)>>,
                      !.task[t].pc = "search_wait", !.task[t].reached = TRUE]

ExecSearch(t, q, index) ==
  /\ Quiescent /\ NextSlot(t)
  /\ conns[1].kind = "opensearch"
  /\ Commit(Search(Begin(t, "c_search", ""), t, 1, q, index))
  /\ UNCHANGED envVars

\* client.search() answers: result.body is returned, or the error is thrown
ResumeSearch(t, ok) ==
  /\ task[t].pc = "search_wait"
  /\ ok => reachable["opensearch"]
  /\ Commit(Finish(World, t, IF ok THEN "body" ELSE "error"))
  /\ UNCHANGED envVars

NextExec ==
  \/ \E t \in Tasks : ConnInitialize(t)
  \/ \E t \in Tasks : ConnShutdown(t)
  \/ \E t \in Tasks : ConnResumeInit(t)
  \/ \E t \in Tasks, o \in {"ok", "throw"} : ConnResumeEnd(t, o)
  \/ \E t \in Tasks, sql \in SqlTexts : ExecQuery(t, sql)
  \/ \E t \in Tasks, ok \in BOOLEAN : ResumeQuery(t, ok)
  \/ \E t \in Tasks, cmd \in CommandInputs : ExecCommand(t, cmd)
  \/ \E t \in Tasks, ok \in BOOLEAN : ResumeCommand(t, ok)
  \/ \E t \in Tasks, q \in QueryInputs, ix \in IndexInputs : ExecSearch(t, q, ix)
  \/ \E t \in Tasks, ok \in BOOLEAN : ResumeSearch(t, ok)
SpecExec == InitConn /\ [][NextExec]_vars

\* The same caller when some backend, or the remote configuration endpoint,
\* accepts the request and never answers.  The event loop runs every
\* continuation whose promise has settled, and the caller goes on calling, so
\* each step that stays enabled is eventually taken; a request to a stuck
\* peer never settles, and the code arms no timer that would settle it.
StuckChoices == {{}, {"postgres"}, {"redis"}, {"api"}}
InitStuck == InitState /\ stuck \in StuckChoices
Fairness ==
  /\ WF_vars(\E t \in Tasks : ResumeConfig(t))
  /\ WF_vars(\E t \in Tasks : ResumeInit(t))
  /\ WF_vars(\E t \in Tasks, o \in {"ok", "throw"} : ResumeEnd(t, o))
  /\ WF_vars(\E t \in Tasks, o \in {"ok", "error"} : ResumeExec(t, o))
SpecStuck == InitStuck /\ [][NextApi]_vars /\ Fairness

\* ------------------------------------------------------------------ claims
NoDup(q) == \A a, b \in 1..Len(q) : q[a] = q[b] => a = b
Done(t) == task[t].pc = "done"
IsLast(t) == \A u \in Tasks : u > t => task[u].pc = "idle"
IsBackendCall(tk) == tk.op = "tool" /\ tk.name \in BackendTools
IsInitialize(tk) == tk.op = "initialize" \/ IsRefresh(tk)
\* a call that changes the registry is in progress
InLifecycle(tk) ==
  /\ Running(tk)
  /\ \/ tk.op \in {"initialize", "shutdown", "signal"}
     \/ tk.op = "startup" /\ tk.phase # "precfg"
     \/ IsRefresh(tk)
ToolsOfKinds(K) == UNION {SeqToSet(ConnectorTools(k)) : k \in K}

\* C1: a backend tool call made while refreshServices() is in progress is
\* dispatched against the complete pre-refresh connector set, never against
\* a registry that refresh has partly released, cleared or rebuilt.
C1_ExecuteSeesDefinitiveSet ==
  \A t \in Tasks : IsBackendCall(task[t]) => task[t].obs # "partial"

\* C2: no two calls that change the registry (initialize, refreshServices,
\* shutdown) are in progress at the same time.
C2_LifecycleExclusive ==
  Cardinality({t \in Tasks : InLifecycle(task[t])}) <= 1

\* C3: after refreshServices() has returned, the handle of every connector
\* the registry referenced when the refresh began has been released, also
\* when the shutdown of one connector throws.
C3_NoLeakAfterRefresh ==
  \A t \in Tasks :
    IsRefresh(task[t]) /\ Done(t) =>
      \A k \in Kinds : task[t].pre[k] # 0 => conns[task[t].pre[k]].handle # "open"

\* C4: after any sequence of completed calls, a kind is in the
\* active-services list exactly when its connector is referenced by the
\* registry, initialized and not released, and no kind is listed twice.
C4_ActiveIffLive ==
  Quiescent =>
    /\ SeqToSet(activeServices) = LiveIn(World)
    /\ NoDup(activeServices)

\* C5: once an initialize() has completed, the tool list holds exactly the
\* refresh tool and the tools of the active connectors, each once, also
\* when initialize() is called again on an initialized registry.
C5_ToolListExact ==
  \A t \in Tasks :
    IsInitialize(task[t]) /\ Done(t) /\ IsLast(t) =>
      /\ NoDup(tools)
      /\ SeqToSet(tools) = {RefreshTool} \cup ToolsOfKinds(LiveIn(World))

\* C6: after initialize() on a fresh registry getTools() holds the refresh
\* tool once and each tool of each active connector once, and two
\* consecutive getTools() calls return the same list.
C6_GetToolsAfterInitialize ==
  /\ task[1].op = "initialize" /\ Done(1) =>
       /\ NoDup(task[1].endTools)
       /\ SeqToSet(task[1].endTools) =
            {RefreshTool} \cup ToolsOfKinds(task[1].endLive)
       /\ task[2].op = "getTools" /\ Done(2) =>
            task[2].endTools = task[1].endTools
  /\ \A t \in Tasks : t > 1 /\ task[t - 1].op = "getTools" /\ task[t].op = "getTools"
                       /\ Done(t - 1) /\ Done(t) =>
       task[t].endTools = task[t - 1].endTools

\* C6 witness: getTools() was called twice in a row on an initialized registry
C6_Witness ==
  /\ task[2].op = "getTools" /\ Done(2)
  /\ task[3].op = "getTools" /\ Done(3)
  /\ Len(task[3].endTools) > 2

\* C7: initialize() returns true whichever connectors fail; it attempts
\* every enabled kind, and on a cleared registry the active services are
\* exactly the attempted kinds whose backend has a connection source and
\* answered the probe.
C7_InitializeToleratesFailures ==
  \A t \in Tasks :
    IsInitialize(task[t]) /\ Done(t) =>
      /\ task[t].ret \in {"true", "success"}
      /\ IsLast(t) /\ epoch = task[t].e1 =>
        /\ task[t].att = {k \in Kinds : config[k].enabled}
        /\ task[t].clean =>
           /\ SeqToSet(task[t].endActive) =
                {k \in task[t].att : ChooseSource(config[k]) # "none" /\ reachable[k]}
           /\ \A k \in Kinds : task[t].endSvc[k] # 0 <=> k \in SeqToSet(task[t].endActive)

\* C7 witness: an initialize() completed with one backend failing and
\* another one active
C7_Witness ==
  \E t \in Tasks :
    /\ task[t].op = "initialize" /\ Done(t) /\ task[t].clean
    /\ task[t].ret = "true"
    /\ task[t].att = Kinds
    /\ task[t].okk # {}
    /\ \E k \in task[t].att : k \notin task[t].okk /\ ~reachable[k]

\* C8: two refreshServices() calls in a row, with no change of the sources
\* or of the backends' reachability from the start of the first to the end
\* of the second, leave the same active services and the same tool list.
C8_RefreshIdempotent ==
  \A t \in Tasks :
    t > 1 /\ IsRefresh(task[t - 1]) /\ IsRefresh(task[t]) /\ Done(t - 1) /\ Done(t)
          /\ task[t - 1].e0 = task[t].e1 =>
      /\ task[t].endActive = task[t - 1].endActive
      /\ task[t].endTools = task[t - 1].endTools

\* C8 witness: two refreshes in a row completed with a backend active
C8_Witness ==
  \E t \in Tasks :
    /\ t > 1 /\ IsRefresh(task[t - 1]) /\ IsRefresh(task[t]) /\ Done(t - 1) /\ Done(t)
    /\ task[t - 1].e0 = task[t].e1
    /\ task[t].endActive # <<>>

\* C9: a backend tool call made after shutdown() has completed fails with
\* "service not initialized" and reaches no backend.
C9_ExecuteAfterShutdownFails ==
  \A t \in Tasks :
    t > 1 /\ task[t - 1].op = "shutdown" /\ Done(t - 1) /\ IsBackendCall(task[t]) =>
      /\ ~task[t].reached
      /\ Done(t) => task[t].ret = "not_initialized"

\* C10: after shutdown() has returned the registry references no connector,
\* the active-services list is empty and the tool list names no backend tool.
C10_ShutdownClearsState ==
  \A t \in Tasks :
    task[t].op = "shutdown" /\ Done(t) /\ IsLast(t) =>
      /\ \A k \in Kinds : svc[k] = 0
      /\ activeServices = <<>>
      /\ SeqToSet(tools) \cap BackendTools = {}

\* C11: a second shutdown() after a completed first one raises no error and
\* calls end()/quit() on no handle a second time; shutdown() on a registry
\* that was never initialized raises no error either.
C11_ShutdownIdempotent ==
  /\ \A t \in Tasks : task[t].op = "shutdown" /\ Done(t) => task[t].ret = "void"
  /\ \A t \in Tasks :
       t > 1 /\ task[t - 1].op = "shutdown" /\ Done(t - 1) /\ task[t].op = "shutdown" =>
         \A k \in Kinds : svc[k] # 0 => conns[svc[k]].ends <= 1

\* C12: when shutdown() or refreshServices() has returned, the shutdown of
\* every connector the registry referenced was attempted (its handle was
\* ended or dropped), also when the shutdown of one of them threw.
C12_ShutdownContinuesOnError ==
  \A t \in Tasks :
    Done(t) /\ (task[t].op = "shutdown" \/ IsRefresh(task[t])) =>
      LET before == IF IsRefresh(task[t]) THEN task[t].pre ELSE task[t].endSvc IN
      \A k \in Kinds :
        before[k] # 0 =>
          \/ conns[before[k]].ends >= 1
          \/ k = "opensearch" /\ ~conns[before[k]].pool
          \/ conns[before[k]].handle = "none"

\* C13: after a completed initialize() or refreshServices(), a backend tool
\* call routed to a kind without an active connector fails with "service not
\* initialized" and reaches no backend; when the active-services list is
\* empty the tool list names the refresh tool only.
C13_InactiveKindRejected ==
  /\ \A t \in Tasks :
       t > 1 /\ IsInitialize(task[t - 1]) /\ Done(t - 1) /\ IsBackendCall(task[t])
             /\ KindOfTool(task[t].name) \notin task[t - 1].endLive =>
         /\ ~task[t].reached
         /\ Done(t) => task[t].ret = "not_initialized"
  /\ \A t \in Tasks :
       IsInitialize(task[t]) /\ Done(t) /\ task[t].endActive = <<>> =>
         /\ task[t].ret \in {"true", "success"}
         /\ SeqToSet(task[t].endTools) = {RefreshTool}

\* C13 witness: a connector's initialize() failed, no service is active, and
\* a tool of that kind was called
C13_Witness ==
  \E t \in Tasks :
    /\ t > 1 /\ IsInitialize(task[t - 1]) /\ Done(t - 1)
    /\ task[t - 1].att # {} /\ task[t - 1].endActive = <<>>
    /\ IsBackendCall(task[t]) /\ Done(t)
    /\ KindOfTool(task[t].name) \in task[t - 1].att
    /\ task[t].ret = "not_initialized"

\* C14: a call of executeTool() with a name that is none of the seven known
\* names fails at once with "Unknown tool" and changes neither the
\* connector fields, the connectors, the active list nor the tool list.
C14_UnknownToolRejected ==
  [][\A t \in Tasks :
       task[t].pc = "idle" /\ task'[t].op = "tool" /\ task'[t].name = UnknownToolName =>
         /\ task'[t].pc = "done"
         /\ task'[t].ret = "unknown_tool"
         /\ UNCHANGED <<svc, conns, activeServices, tools>>]_vars

\* C14 witness: an unknown tool was called on a registry with active services
C14_Witness ==
  \E t \in Tasks :
    /\ task[t].op = "tool" /\ task[t].name = UnknownToolName /\ Done(t)
    /\ task[t].endLive # {}

\* C15: the registry follows the lifecycle Uninitialized -> Ready ->
\* (Refreshing -> Ready)* -> ShuttingDown -> Shutdown only: an initialize()
\* succeeds from Uninitialized only and a refresh succeeds from Ready only
\* (never from Uninitialized, and never from Shutdown back to Ready).
C15_LifecycleOrder ==
  \A t \in Tasks :
    Done(t) =>
      /\ task[t].op = "initialize" /\ task[t].ret = "true" =>
           task[t].from = "Uninitialized"
      /\ IsRefresh(task[t]) /\ task[t].ret = "success" =>
           task[t].from = "Ready"

\* C16: when the process exits on SIGINT or SIGTERM, shutdown() has
\* completed and no backend handle is left open, whatever was in progress
\* when the signal arrived.
C16_ExitLeavesNoHandle ==
  exited =>
    /\ \E t \in Tasks : task[t].op = "signal" /\ Done(t)
    /\ \A c \in 1..Len(conns) : conns[c].handle # "open"

\* C17: executeTool("refresh_skeet_tools") runs refreshServices() exactly
\* once; its summary's status is "success" exactly when refreshServices()
\* returned true, and its activeServices is the active-services list that
\* refresh produced: the kinds that refresh made active, each once.
C17_RefreshSummary ==
  \A t \in Tasks :
    IsRefresh(task[t]) /\ Done(t) =>
      /\ task[t].refreshes = 1
      /\ task[t].ret = "success" <=> task[t].initOk
      /\ task[t].sum = task[t].endActive
      /\ SeqToSet(task[t].sum) = task[t].okk
      /\ NoDup(task[t].sum)

\* C17 witness: a refresh returned its summary with one kind active and
\* another one failed
C17_Witness ==
  \E t \in Tasks :
    /\ IsRefresh(task[t]) /\ Done(t)
    /\ task[t].sum # <<>>
    /\ task[t].att \ task[t].okk # {}

\* C18: a stuck backend does not wedge the registry: when a connection
\* attempt, a liveness probe or the remote configuration fetch never
\* answers, every initialize() and every refresh still completes.
C18_StuckBackendBounded ==
  \A t \in Tasks :
    (task[t].op = "initialize" \/ IsRefresh(task[t])) ~> Done(t)

\* the last call was refreshConfigurations() and it has returned
\* and no source changed since it began
Latest(t) == t = MaxTasks \/ task[t + 1].pc = "idle"
ConfigReturned ==
  /\ Quiescent
  /\ \E t \in Tasks :
       task[t].op = "config" /\ Done(t) /\ Latest(t) /\ task[t].e0 = epoch
\* the remote response is read and names a primary connection of kind k
RemotePrimaries(k) ==
  {j \in 1..Len(remote.conns[k]) : remote.conns[k][j].is_primary}
RemoteNames(k) ==
  apiKey /\ remote.status = "ok" /\ remote.integrations /\ RemotePrimaries(k) # {}
FlaggedPrimary(k) ==
  remote.conns[k][CHOOSE j \in RemotePrimaries(k) :
                    \A i \in RemotePrimaries(k) : j <= i]
FileNames(k) == file.state = "ok" /\ k \in file.keys
\* the body of the response is malformed for some kind
RemoteMalformed ==
  \E k \in Kinds : \E j \in 1..Len(remote.conns[k]) : remote.conns[k][j] = Broken
\* what loadFromEnv and loadFromFile produce from the current sources
EnvAndFile == LoadFromFile(LoadFromEnv(Baseline, env), file)

\* C19: precedence over the three layers, field by field: the url is the
\* remote primary's dsn when the remote source sets one, else the file's
\* url when the file sets one, else the environment's; an option only the
\* file sets is kept whatever the later source does
\* (an unset url and an empty one count as the same value)
SameUrl(a, b) == a = b \/ (~Truthy(a) /\ ~Truthy(b))
C19_LayerPrecedence ==
  ConfigReturned =>
    \A k \in Kinds :
      /\ SameUrl(config[k].url,
                 IF RemoteNames(k) /\ Truthy(FlaggedPrimary(k).dsn)
                   THEN FlaggedPrimary(k).dsn
                 ELSE IF FileNames(k) /\ file.url[k] # Undef THEN file.url[k]
                 ELSE env[k])
      /\ config[k].opt = IF FileNames(k) THEN file.opt[k] ELSE Undef

\* C20: remote selection, for a well-formed response: of several connections the one flagged primary is
\* chosen (enabled, url = its dsn, options.connection = its descriptor); a
\* kind with no flagged connection, or not mentioned, keeps exactly the entry
\* the environment and the file produced.
C20_RemoteSelection ==
  ConfigReturned /\ ~RemoteMalformed =>
    \A k \in Kinds :
      IF RemoteNames(k)
        THEN /\ config[k].enabled
             /\ config[k].conn = FlaggedPrimary(k)
             /\ config[k].url = IF Truthy(FlaggedPrimary(k).dsn)
                                  THEN FlaggedPrimary(k).dsn ELSE ""
        ELSE config[k] = LoadFromFile(LoadFromEnv(Baseline, env), file)[k]

\* C20 witness: the response lists a non-primary connection before the
\* primary one, the primary one was chosen, and another kind that the
\* response does not mention kept its file entry
C20_Witness ==
  /\ ConfigReturned
  /\ remote.conns["postgres"] = <<Replica, Main>>
  /\ config["postgres"].conn = Main
  /\ remote.conns["redis"] = <<>>
  /\ config["redis"].enabled

\* C21: any remote failure (non-200 status, transport or parse error, a body
\* malformed for some kind) means the remote source contributed nothing:
\* refreshConfigurations() returns, and every kind's entry is what the
\* environment and the file produced, none updated from the failed response.
C21_RemoteFailureContributesNothing ==
  ConfigReturned /\ apiKey /\ (remote.status # "ok" \/ RemoteMalformed) =>
    \A k \in Kinds : config[k] = EnvAndFile[k]

\* C22: a file that exists but does not parse is not fatal: the file step
\* changes no entry, and the remote step still runs: a kind the remote
\* response names gets its primary, every other kind has exactly the entry
\* the environment step produced.
C22_MalformedFileIgnored ==
  ConfigReturned /\ file.state = "malformed" /\ ~RemoteMalformed =>
    \A k \in Kinds :
      IF RemoteNames(k)
        THEN config[k].conn = FlaggedPrimary(k)
        ELSE config[k] = LoadFromEnv(Baseline, env)[k]

\* C22 witness: the unparsable text names postgres and redis; postgres kept
\* its environment entry and the remote step's primary for redis was applied
C22_Witness ==
  /\ ConfigReturned
  /\ file.state = "malformed" /\ "postgres" \in file.keys
  /\ config["postgres"] = [Disabled EXCEPT !.enabled = TRUE, !.url = EnvUrl]
  /\ config["redis"].conn = Main

\* no source provides anything
NothingProvided ==
  /\ \A k \in Kinds : ~Truthy(env[k]) /\ ~FileNames(k)
  /\ \/ ~apiKey
     \/ remote.status # "ok"
     \/ ~remote.integrations
     \/ \A k \in Kinds : RemotePrimaries(k) = {}

\* C23: refreshConfigurations() never fails: for every combination of
\* environment, file and remote outcomes it returns a config, in the worst
\* case the all-disabled baseline, and initialize() on that baseline returns
\* true, on a cleared registry with no active service and only the refresh
\* tool.
C23_ResolveNeverFails ==
  /\ \A t \in Tasks : Done(t) /\ task[t].op = "config" => task[t].ret = "config"
  /\ \A t \in Tasks : Done(t) /\ task[t].op = "initialize" => task[t].ret = "true"
  /\ \A t \in Tasks :
       Quiescent /\ NothingProvided /\ Done(t) /\ Latest(t) /\ task[t].e0 = epoch =>
         /\ config = Baseline
         /\ task[t].op = "initialize" /\ task[t].clean =>
              /\ task[t].endActive = <<>>
              /\ SeqToSet(task[t].endTools) = {RefreshTool}

\* C23 witness: the file does not parse and the remote request fails; a
\* refreshConfigurations() returned the baseline and an initialize() after
\* it returned true
C23_Witness ==
  /\ file.state = "malformed" /\ apiKey /\ remote.status = "error"
  /\ config = Baseline
  /\ \E t \in Tasks :
       /\ t > 1 /\ task[t - 1].op = "config" /\ Done(t - 1)
       /\ task[t].op = "initialize" /\ Done(t) /\ task[t].ret = "true"

\* C24: in every config refreshConfigurations() returns, an enabled kind has
\* a non-empty url or a non-empty options.connection.dsn.
C24_EnabledHasSource ==
  ConfigReturned =>
    \A k \in Kinds :
      config[k].enabled => Truthy(config[k].url) \/ Truthy(config[k].conn.dsn)

\* C25: every config refreshConfigurations() returns has exactly the four
\* well-known keys: a key of the file or of the remote response that is not
\* one of them is ignored and never added.
C25_FourKeysOnly ==
  ConfigReturned => configKeys = Kinds

\* C26: the config is rebuilt from scratch on every refreshConfigurations():
\* what it returns depends only on the environment, the file and the remote
\* response as they are during the call, and nothing an earlier call
\* produced survives when the sources no longer provide it.
C26_RebuiltFromScratch ==
  ConfigReturned =>
    /\ config = IF apiKey THEN FetchFromApi(EnvAndFile, remote) ELSE EnvAndFile
    /\ configKeys = FileKeys(Kinds, file)

\* C26 witness: an initialize() got a config in which redis was enabled,
\* the remote request then began to fail (the other sources are as they
\* were), and the next refreshConfigurations() returned a config with redis
\* disabled
C26_Witness ==
  /\ ConfigReturned
  /\ \E t \in Tasks :
       /\ t > 1 /\ task[t].op = "config" /\ Latest(t)
       /\ task[t - 1].op = "initialize" /\ task[t - 1].e1 < epoch
       /\ "redis" \in task[t - 1].att
  /\ apiKey /\ remote.status = "error" /\ env # NoEnv /\ file # NoFile
  /\ ~config["redis"].enabled

\* C27: a config entry with enabled = false is never handed to a connector
\* constructor: every connector was constructed from an enabled entry, and
\* an initialize() attempts no kind that the config it resolved has disabled.
C27_DisabledNeverConstructed ==
  /\ \A c \in 1..Len(conns) : conns[c].cfg.enabled
  /\ \A t \in Tasks :
       /\ Quiescent /\ Done(t) /\ Latest(t) /\ task[t].e0 = epoch
       /\ task[t].op = "initialize"
       => \A k \in task[t].att : config[k].enabled

\* C27 witness: an initialize() completed that constructed a connector for
\* one kind and passed over a disabled one
C27_Witness ==
  \E t \in Tasks :
    /\ Quiescent /\ Done(t) /\ Latest(t) /\ task[t].e0 = epoch
    /\ task[t].op = "initialize"
    /\ task[t].att # {}
    /\ \E k \in Kinds : ~config[k].enabled /\ k \notin task[t].att
    /\ \E c \in 1..Len(conns) : conns[c].kind \in task[t].att

\* the place of a kind in initialize()'s order
Pos(k) == CHOOSE i \in 1..NKinds : KindOrder[i] = k

\* C28: a connector's initialize() never throws: a connect or probe error
\* becomes a false return, so the registry's initialize() is not aborted
\* (it returns true) and every enabled kind after a failed one is attempted.
C28_ConnectorFailureContained ==
  \A t \in Tasks :
    IsInitialize(task[t]) /\ Done(t) =>
      /\ task[t].att \ task[t].okk # {} => task[t].ret \in {"true", "success"}
      /\ IsLast(t) /\ epoch = task[t].e1 =>
           \A k1 \in task[t].att \ task[t].okk :
             \A k2 \in Kinds :
               Pos(k2) > Pos(k1) /\ config[k2].enabled => k2 \in task[t].att

\* C28 witness: the probe of one kind failed and a kind after it became
\* active in the same initialize()
C28_Witness ==
  \E t \in Tasks :
    /\ IsInitialize(task[t]) /\ Done(t)
    /\ \E k1 \in task[t].att \ task[t].okk :
         /\ ~reachable[k1] /\ ChooseSource(config[k1]) # "none"
         /\ \E k2 \in task[t].okk : Pos(k2) > Pos(k1)

\* C29: a connector's execute operation fails with the "not initialized"
\* error, without any backend call, whenever the connector is not
\* successfully initialized: before initialize(), after an initialize() that
\* returned false (also when the probe failed), and after shutdown().
C29_ExecuteNeedsInitialized ==
  \A t \in Tasks :
    /\ task[t].op = "c_execute"
    /\ \/ t = 1
       \/ task[t - 1].op = "c_initialize" /\ task[t - 1].ret = "false"
       \/ task[t - 1].op = "c_shutdown"
    => /\ ~task[t].reached
       /\ Done(t) => task[t].ret = "not_initialized"

\* C30: a connector's shutdown() releases the handle unconditionally and is
\* idempotent: once it has returned or thrown the connector holds no handle,
\* a second call in a row calls end()/quit() on no handle again, and on a
\* connector that was never initialized it raises no error.
C30_ConnectorShutdownIdempotent ==
  \A t \in Tasks :
    task[t].op = "c_shutdown" /\ Done(t) /\ IsLast(t) =>
      /\ ~conns[1].pool
      /\ conns[1].handle # "open"
      /\ t > 1 /\ task[t - 1].op = "c_shutdown" => conns[1].ends <= 1
      /\ t = 1 => task[t].ret = "void"

\* C31: a relational executeQuery() that obtained a connection has sent a
\* ROLLBACK on it and then released it exactly once when it completes,
\* whether the query succeeded, the query failed or the opening of the
\* read-only transaction failed; what it returns or throws is the outcome
\* of the try block, also when the rollback failed.
C31_RollbackThenRelease ==
  \A t \in Tasks :
    task[t].op = "c_query" /\ Done(t) /\ IsLast(t) /\ backend.log # <<>> =>
      LET log == backend.log
          n == Len(log)
      IN  /\ n >= 3
          /\ log[n] = "release"
          /\ log[n - 1] = "ROLLBACK"
          /\ \A j \in 1..(n - 2) : log[j] \notin {"release", "ROLLBACK"}
          /\ backend.lent = 0
          /\ task[t].ret = task[t].res
          /\ task[t].arg \in SeqToSet(log) => task[t].ret # ""

\* the rollback failed after the query had succeeded
C31_Witness ==
  \E t \in Tasks :
    /\ task[t].op = "c_query" /\ Done(t) /\ IsLast(t)
    /\ task[t].warned
    /\ task[t].ret = "rows"
    /\ backend.log[Len(backend.log)] = "release"

\* C32: no SQL text passed to a relational executeQuery() changes the data:
\* after the call the table is as it was before it, and a text with a
\* mutating statement completes without an error unless the connection
\* failed.
C32_NoPersistentEffect ==
  \A t \in Tasks :
    task[t].op = "c_query" /\ Done(t) /\ IsLast(t) =>
      /\ backend.data = task[t].d0
      /\ Mutating(task[t].arg) /\ task[t].reached /\ ~task[t].lost =>
           task[t].ret # "error"

\* the word before the first white space of a command string, in upper case
NameOf(cmd) == IF cmd = <<>> \/ Head(cmd) = Sp THEN "" ELSE ToUpperCase(Head(cmd))
LiveConnector == conns[1].pool /\ conns[1].handle = "open" /\ reachable[conns[1].kind]

\* C33: executeCommand() on an initialized Redis connector sends nothing and
\* fails with 'not allowed' when the command's name, compared in upper case,
\* is outside the allow-list (FLUSHALL in either case); a command whose name
\* is allow-listed is sent as its white-space separated parts, and GET mykey
\* in either case succeeds when the backend is active.
C33_AllowList ==
  \A t \in Tasks :
    /\ task[t].op = "c_command" /\ Done(t) /\ IsLast(t)
    /\ task[t].ret # "not_initialized"
    => LET cmd == task[t].arg IN
       /\ NameOf(cmd) \notin AllowedCommands =>
            task[t].ret = "not_allowed" /\ backend.log = <<>> /\ ~task[t].reached
       /\ NameOf(cmd) = "FLUSHALL" => task[t].ret = "not_allowed"
       /\ NameOf(cmd) \in AllowedCommands =>
            /\ task[t].ret \in {"ok", "error"}
            /\ Len(backend.log) = 1
            /\ backend.log[1][1] = Head(cmd)
       /\ cmd \in {<<"GET", Sp, "mykey">>, <<"get", Sp, "mykey">>} =>
            /\ backend.log[1][2] = "mykey" /\ Len(backend.log[1]) = 2
            /\ LiveConnector => task[t].ret = "ok"

\* get mykey, written in lower case, was sent and answered
C33_Witness ==
  \E t \in Tasks :
    /\ task[t].op = "c_command" /\ Done(t) /\ IsLast(t)
    /\ task[t].arg = <<"get", Sp, "mykey">>
    /\ task[t].ret = "ok"
    /\ backend.log = << <<"get", "mykey">> >>

\* C34: search() on an initialized connector sends as body the value the
\* query string parses to when it is valid JSON, and otherwise
\* {query: {query_string: {query: <string>}}}; a string that does not parse
\* is never an error of its own; the request carries an index only when one
\* was given, and then that one.
C34_ParseThenFallback ==
  \A t \in Tasks :
    /\ task[t].op = "c_search" /\ IsLast(t)
    /\ task[t].pc \in {"search_wait", "done"}
    /\ task[t].ret # "not_initialized"
    => LET q == task[t].arg
           sent == backend.log
       IN  /\ Len(sent) = 1
           /\ task[t].reached
           /\ q = MatchAllText => sent[1].body = MatchAll
           /\ q = "42" => sent[1].body = [json |-> "number", n |-> 42]
           /\ q \in {"title:skeet", "{\"query\":", ""} =>
                sent[1].body = [json |-> "object",
                                query |-> [query_string |-> [query |-> q]]]
           /\ sent[1].hasIndex => task[t].index # Undef /\ sent[1].index = task[t].index
           /\ task[t].index = "logs" => sent[1].hasIndex

\* a string that is no JSON was sent as a query-string search without index
C34_Witness ==
  \E t \in Tasks :
    /\ task[t].op = "c_search" /\ Done(t) /\ IsLast(t)
    /\ task[t].arg = "title:skeet"
    /\ task[t].index = Undef
    /\ task[t].ret = "body"
    /\ backend.log[1].body.query.query_string.query = "title:skeet"
    /\ ~backend.log[1].hasIndex

\* C35: a connector's initialize() creates its handle with
\* options.connection.dsn when that is non-empty, else with the configured
\* url; with neither it returns false and creates no handle; it returns true
\* only when the connect and the probe on that handle succeeded.
C35_SourcePriority ==
  \A t \in Tasks :
    task[t].op = "c_initialize" /\ Done(t) /\ IsLast(t) =>
      LET cfg == conns[1].cfg IN
      /\ task[t].ret \in {"true", "false"}
      /\ Truthy(cfg.conn.dsn) => conns[1].target = cfg.conn.dsn
      /\ ~Truthy(cfg.conn.dsn) /\ Truthy(cfg.url) => conns[1].target = cfg.url
      /\ ~Truthy(cfg.conn.dsn) /\ ~Truthy(cfg.url) =>
           /\ task[t].ret = "false"
           /\ conns[1].handle = "none" /\ ~conns[1].pool
           /\ conns[1].target = Undef
      /\ task[t].ret = "true" =>
           /\ reachable[conns[1].kind]
           /\ conns[1].ready
           /\ conns[1].target # Undef

\* a connector with both a url and a connection dsn came up on the dsn
C35_Witness ==
  \E t \in Tasks :
    /\ task[t].op = "c_initialize" /\ Done(t) /\ IsLast(t)
    /\ conns[1].cfg.url = EnvUrl
    /\ conns[1].cfg.conn = Main
    /\ conns[1].target = Main.dsn
    /\ task[t].ret = "true"

\* C36: for a parsed file, every well-known key the file holds has the
\* file's fields merged onto the environment's entry (the url stays the
\* environment's when the file sets none) and is enabled, also when the
\* file's entry says enabled: false; the other keys keep the environment's
\* entry.  (Observed on the kinds the remote step does not replace.)
C36_FileMergeForcesEnabled ==
  ConfigReturned /\ file.state = "ok" /\ ~RemoteMalformed =>
    \A k \in Kinds :
      ~RemoteNames(k) =>
        LET e == LoadFromEnv(Baseline, env)[k] IN
        IF k \in file.keys
          THEN /\ config[k].enabled
               /\ config[k].url = IF file.url[k] # Undef THEN file.url[k] ELSE e.url
               /\ config[k].opt = file.opt[k]
          ELSE config[k] = e

\* the file's postgres entry says enabled: false and sets no url: the entry
\* is enabled with an url the environment gave
C36_Witness ==
  /\ ConfigReturned
  /\ file.state = "ok" /\ "postgres" \in file.keys /\ "postgres" \in file.off
  /\ file.url["postgres"] = Undef
  /\ Truthy(env["postgres"])
  /\ config["postgres"].enabled
  /\ config["postgres"].url = env["postgres"]

\* C37: a connector whose initialize() returned false and which the
\* registry has discarded owns no open pool or client.
C37_FailedInitLeavesNoHandle ==
  \A c \in 1..Len(conns) :
    /\ ~conns[c].ready
    /\ \A k \in Kinds : svc[k] # c
    /\ \A t \in Tasks : ~(Running(task[t]) /\ task[t].c = c)
    => conns[c].handle # "open"

\* C38: no step of an executeTool() call for a backend tool or an unknown
\* tool, and no getTools() or getActiveServices() call, changes the
\* connector fields, the active list or the tool list.
C38_ReadsLeaveRegistry ==
  [][\A t \in Tasks :
       /\ task'[t] # task[t]
       /\ \/ task'[t].op \in {"getTools", "getActiveServices"}
          \/ task'[t].op = "tool" /\ task'[t].name # RefreshTool
       => UNCHANGED <<svc, activeServices, tools>>]_vars

\* a backend tool call failed on a registry with active services, and a
\* getActiveServices() call followed
C38_Witness ==
  \E t \in Tasks :
    /\ t > 1
    /\ IsBackendCall(task[t - 1]) /\ task[t - 1].ret = "error"
    /\ task[t].op = "getActiveServices" /\ Done(t)
    /\ task[t].endActive # <<>>
    /\ task[t].endActive = task[t - 1].endActive

\* number of occurrences of x in the sequence q
Count(q, x) == Cardinality({j \in 1..Len(q) : q[j] = x})

\* C39: a refresh_skeet_tools call is carried out in whatever state the
\* registry is (it is never refused as not initialized or unknown), and when
\* it reports success the tool list holds refresh_skeet_tools exactly once,
\* the active list names exactly the kinds with a live connector, once each,
\* followed by their tools, and no other connector is referenced.
C39_RefreshRecovers ==
  \A t \in Tasks :
    IsRefresh(task[t]) /\ Done(t) =>
      /\ task[t].ret \in {"success", "error"}
      /\ task[t].ret = "success" =>
           /\ Count(task[t].endTools, RefreshTool) = 1
           /\ NoDup(task[t].endActive)
           /\ SeqToSet(task[t].endActive) = task[t].endLive
           /\ {k \in Kinds : task[t].endSvc[k] # 0} = task[t].endLive
           /\ SeqToSet(task[t].endTools) =
                ToolsOfKinds(task[t].endLive) \cup {RefreshTool}

\* a refresh after shutdown() brought a backend back
C39_Witness ==
  \E t \in Tasks :
    /\ IsRefresh(task[t]) /\ Done(t)
    /\ task[t].from = "Shutdown"
    /\ task[t].ret = "success"
    /\ task[t].endActive # <<>>

\* C40: while the initialize() started at module load is in progress, no
\* ListTools request has been answered and no tool call has been dispatched
\* to a connector.
C40_NoAnswerDuringStartup ==
  task[1].op = "startup" /\ Running(task[1]) =>
    \A t \in Tasks :
      /\ ~(task[t].op = "getTools" /\ Done(t))
      /\ ~(IsBackendCall(task[t]) /\ task[t].reached)

====
